---- MODULE Spec2Model ----
(***************************************************************************)
(* Disabled-state propagation of HTMLFieldSetElement                       *)
(* (components/script/dom/htmlfieldsetelement.rs).                         *)
(*                                                                         *)
(* The document is a finite ordered tree of elements.  Each run of the     *)
(* model fixes one tree (chosen in Init) and then delivers attribute       *)
(* mutations to its fieldset elements; every delivery runs the whole       *)
(* attribute_mutated handler.  The order in which the handler calls its    *)
(* collaborators is recorded in log, the flags before the call in pre.     *)
(***************************************************************************)
EXTENDS Naturals, Sequences, FiniteSets

\* Number of elements of the tree when only the disabled attribute is
\* mutated (SpecDisabled), and when any attribute is (Spec).
MaxNodes == 4

MaxNodesAnyAttr == 3

\* The element kinds the handler distinguishes (HTMLLegendElement, the four
\* HTMLElementTypeId arms of the filter, the fieldset itself, anything else).
Kinds == {"fieldset", "legend", "button", "input", "select", "textarea", "other"}

\* The kinds of the listed form controls the cascade acts on.
ControlKinds == {"button", "input", "select", "textarea"}

\* The handler tells the control kinds apart in no way, so a tree of Init
\* has one control kind per position; the four kinds take turns.
ControlKindAt(n) ==
    CASE n % 4 = 1 -> "button"
      [] n % 4 = 2 -> "input"
      [] n % 4 = 3 -> "select"
      [] OTHER -> "textarea"

MutationKinds == {"SetNone", "SetSome", "Removed"}

\* The two attribute names the handler matches, and one it does not.
AttrNames == {"disabled", "form", "name"}

VARIABLES
    parent,          \* parent[n]: the parent element of n, 0 for the root
    kind,            \* kind[n]: the element kind of n
    has_disabled,    \* has_disabled[n]: n's own disabled attribute is present
    disabled_state,  \* ElementState::IN_DISABLED_STATE of each element
    enabled_state,   \* ElementState::IN_ENABLED_STATE of each element
    last,            \* the attribute mutation delivered last
    pre,             \* the two flags of every element before that delivery
    log              \* the calls the handler made for it, in order

vars == <<parent, kind, has_disabled, disabled_state, enabled_state,
          last, pre, log>>

\* The elements of the tree.
Nodes == DOMAIN parent

----------------------------------------------------------------------------
\* Tree primitives (Node::children, Node::traverse_preorder, Node::ancestors)

RECURSIVE ChildrenFrom(_, _)
ChildrenFrom(n, i) ==
    IF i \notin Nodes THEN <<>>
    ELSE IF parent[i] = n THEN <<i>> \o ChildrenFrom(n, i + 1)
    ELSE ChildrenFrom(n, i + 1)

\* node.children(): the direct children in child order.
Children(n) == ChildrenFrom(n, 1)

RECURSIVE traverse_preorder(_)
RECURSIVE TraverseAll(_)
\* The concatenation of the pre-order sequences of a sequence of roots.
TraverseAll(roots) ==
    IF roots = <<>> THEN <<>>
    ELSE traverse_preorder(Head(roots)) \o TraverseAll(Tail(roots))

\* node.traverse_preorder(): the node itself, then its subtree in pre-order.
traverse_preorder(n) == <<n>> \o TraverseAll(Children(n))

RECURSIVE ancestors(_)
\* node.ancestors(): the parent, its parent, ... up to the root.
ancestors(n) == IF parent[n] = 0 THEN <<>> ELSE <<parent[n]>> \o ancestors(parent[n])

Range(s) == {s[i] : i \in 1..Len(s)}

RECURSIVE SelectSeqBy(_, _)
\* The subsequence of s whose elements are in the set keep.
SelectSeqBy(s, keep) ==
    IF s = <<>> THEN <<>>
    ELSE IF Head(s) \in keep THEN <<Head(s)>> \o SelectSeqBy(Tail(s), keep)
    ELSE SelectSeqBy(Tail(s), keep)

----------------------------------------------------------------------------
\* Element methods the handler calls.  A handler state s is a record
\* [ds, es, log]: the disabled flags, the enabled flags and the calls made
\* so far.

Call(op, el, val) == [op |-> op, el |-> el, val |-> val]

\* Element::set_disabled_state
set_disabled_state(s, e, v) ==
    [s EXCEPT !.ds = [@ EXCEPT ![e] = v],
              !.log = Append(@, Call("set_disabled_state", e, v))]

\* Element::set_enabled_state
set_enabled_state(s, e, v) ==
    [s EXCEPT !.es = [@ EXCEPT ![e] = v],
              !.log = Append(@, Call("set_enabled_state", e, v))]

\* Element::check_disabled_attribute: the flags follow the own attribute.
check_disabled_attribute(s, e) ==
    [s EXCEPT !.ds = [@ EXCEPT ![e] = has_disabled[e]],
              !.es = [@ EXCEPT ![e] = ~has_disabled[e]],
              !.log = Append(@, Call("check_disabled_attribute", e, has_disabled[e]))]

\* Element::check_ancestors_disabled_state_for_form_control: a disabled
\* fieldset among the ancestors forces the element disabled.
check_ancestors_disabled_state_for_form_control(s, e) ==
    LET forced == \E a \in Range(ancestors(e)) : kind[a] = "fieldset" /\ s.ds[a]
        t == [s EXCEPT !.log = Append(@,
                 Call("check_ancestors_disabled_state_for_form_control", e, forced))]
    IN  IF forced
        THEN [t EXCEPT !.ds = [@ EXCEPT ![e] = TRUE], !.es = [@ EXCEPT ![e] = FALSE]]
        ELSE t

\* The attribute_mutated of the super type (HTMLElement): it touches none of
\* the state of this model.
super_attribute_mutated(s, c, mutation) ==
    [s EXCEPT !.log = Append(@, Call("super_attribute_mutated", c, FALSE))]

\* FormControl::form_attribute_mutated: resolves the form owner anew; it
\* touches neither flag of any element.
form_attribute_mutated(s, c, mutation) ==
    [s EXCEPT !.log = Append(@, Call("form_attribute_mutated", c, FALSE))]

\* HTMLElement::is_listed_element
is_listed_element(e) == kind[e] \in {"button", "input", "select", "textarea"}

----------------------------------------------------------------------------
\* HTMLFieldSetElement::attribute_mutated

\* TargetState without the early return of the Set(Some(_)) arm.
TargetStateNoReturn(mutation) ==
    IF mutation = "Removed" THEN "false" ELSE "true"

\* The match on the mutation: the target state, or "return".
TargetState(mutation) ==
    CASE mutation = "SetNone" -> "true"
      [] mutation = "SetSome" -> "return"
      [] mutation = "Removed" -> "false"

RECURSIVE LegendFilterAll(_, _)
\* LegendFilter dropping every legend child instead of the first one.
LegendFilterAll(cs, found_legend) ==
    IF cs = <<>> THEN <<>>
    ELSE IF kind[Head(cs)] = "legend" THEN LegendFilterAll(Tail(cs), TRUE)
    ELSE <<Head(cs)>> \o LegendFilterAll(Tail(cs), found_legend)

RECURSIVE LegendFilter(_, _)
\* The filter closure over the children: drops the first legend only.
LegendFilter(cs, found_legend) ==
    IF cs = <<>> THEN <<>>
    ELSE IF found_legend THEN <<Head(cs)>> \o LegendFilter(Tail(cs), TRUE)
    ELSE IF kind[Head(cs)] = "legend" THEN LegendFilter(Tail(cs), TRUE)
    ELSE <<Head(cs)>> \o LegendFilter(Tail(cs), FALSE)

\* children without the filter: every child is a cascade root.
childrenUnfiltered(c) == Children(c)

\* let children = node.children().filter(...)
children(c) == LegendFilter(Children(c), FALSE)

\* IsField with the fieldset kind among the matched kinds.
IsFieldOrFieldset(e) ==
    kind[e] \in {"button", "input", "select", "textarea", "fieldset"}

\* The type_id match of the inner filter.
IsField(e) == kind[e] \in {"button", "input", "select", "textarea"}

\* fields leaving out what lies below a legend at any depth.
fieldsOutsideLegends(c) ==
    SelectSeqBy(TraverseAll(children(c)),
                {e \in Nodes : /\ IsField(e)
                               /\ \A a \in Range(ancestors(e)) : kind[a] # "legend"})

RECURSIVE Reversed(_)
Reversed(s) == IF s = <<>> THEN <<>> ELSE Append(Reversed(Tail(s)), Head(s))

\* fields with the cascade roots taken last child first.
fieldsLastRootFirst(c) ==
    SelectSeqBy(TraverseAll(Reversed(children(c))), {e \in Nodes : IsField(e)})

\* fields without the traversal: the filtered children themselves.
fieldsOfChildren(c) == SelectSeqBy(children(c), {e \in Nodes : IsField(e)})

\* let fields = children.flat_map(|child| child.traverse_preorder().filter(...))
fields(c) == SelectSeqBy(TraverseAll(children(c)), {e \in Nodes : IsField(e)})

\* SetOwnState without the second call.
SetOwnStateDisabledOnly(s, c, disabled) == set_disabled_state(s, c, disabled)

\* el.set_disabled_state(disabled_state); el.set_enabled_state(!disabled_state)
SetOwnState(s, c, disabled) ==
    set_enabled_state(set_disabled_state(s, c, disabled), c, ~disabled)

\* DisableField flipping the two flags instead of setting them.
DisableFieldToggled(s, e) ==
    set_enabled_state(set_disabled_state(s, e, ~s.ds[e]), e, s.ds[e])

\* The body of the loop of the disabling branch.
DisableField(s, e) == set_enabled_state(set_disabled_state(s, e, TRUE), e, FALSE)

\* EnableField as a plain clear of the disabled state.
EnableFieldCleared(s, e) == set_enabled_state(set_disabled_state(s, e, FALSE), e, TRUE)

\* EnableField with its two checks in the opposite order.
EnableFieldReversed(s, e) ==
    check_disabled_attribute(check_ancestors_disabled_state_for_form_control(s, e), e)

\* The body of the loop of the enabling branch.
EnableField(s, e) ==
    check_ancestors_disabled_state_for_form_control(check_disabled_attribute(s, e), e)

RECURSIVE DisableFields(_, _)
\* for field in fields { ... } of the disabling branch
DisableFields(s, fs) ==
    IF fs = <<>> THEN s ELSE DisableFields(DisableField(s, Head(fs)), Tail(fs))

RECURSIVE EnableFields(_, _)
\* for field in fields { ... } of the enabling branch
EnableFields(s, fs) ==
    IF fs = <<>> THEN s ELSE EnableFields(EnableField(s, Head(fs)), Tail(fs))

\* Propagate whose enabling branch leaves the fields alone.
PropagateDisableOnly(s, c, disabled) ==
    LET own == SetOwnState(s, c, disabled)
    IN  IF disabled THEN DisableFields(own, fields(c)) ELSE own

\* Propagate writing the own state of the fieldset after the fields.
PropagateOwnLast(s, c, disabled) ==
    SetOwnState(IF disabled THEN DisableFields(s, fields(c))
                            ELSE EnableFields(s, fields(c)),
                c, disabled)

\* The "disabled" arm once the target state is known.
Propagate(s, c, disabled) ==
    LET own == SetOwnState(s, c, disabled)
    IN  IF disabled THEN DisableFields(own, fields(c))
                    ELSE EnableFields(own, fields(c))

\* The "disabled" arm of the match on the attribute name.
DisabledArm(s, c, mutation) ==
    IF TargetState(mutation) = "return" THEN s
    ELSE Propagate(s, c, TargetState(mutation) = "true")

\* attribute_mutated calling the super type after its own match.
attribute_mutated_super_last(s, c, name, mutation) ==
    LET own == CASE name = "disabled" -> DisabledArm(s, c, mutation)
                 [] name = "form" -> form_attribute_mutated(s, c, mutation)
                 [] OTHER -> s
    IN  super_attribute_mutated(own, c, mutation)

\* attribute_mutated calling the form owner resolver in the default arm too.
attribute_mutated_resolver_always(s, c, name, mutation) ==
    LET sup == super_attribute_mutated(s, c, mutation)
    IN  IF name = "disabled" THEN DisabledArm(sup, c, mutation)
        ELSE form_attribute_mutated(sup, c, mutation)

\* The whole handler.
attribute_mutated(s, c, name, mutation) ==
    LET sup == super_attribute_mutated(s, c, mutation)
    IN  CASE name = "disabled" -> DisabledArm(sup, c, mutation)
          [] name = "form" -> form_attribute_mutated(sup, c, mutation)
          [] OTHER -> sup

\* Elements over the cascade roots only (the first legend child left out).
ElementsExempting(c) ==
    SelectSeqBy(TraverseAll(children(c)), {e \in Nodes : is_listed_element(e)})

\* HTMLFieldSetElement::Elements: the collection rooted at the fieldset,
\* its descendants in tree order that pass ElementsFilter.
Elements(c) ==
    SelectSeqBy(TraverseAll(Children(c)), {e \in Nodes : is_listed_element(e)})

----------------------------------------------------------------------------
\* The state machine

\* Any ordered tree of n elements, numbered breadth first (so the children
\* of an element are in child order by number), with the flags of newly
\* constructed elements: a fieldset is created with IN_ENABLED_STATE, a
\* control follows its own attribute, any other element has neither flag.
TreeInit(n) ==
    /\ parent \in {p \in [1..n -> 0..n] :
                     /\ p[1] = 0
                     /\ \A m \in 2..n : p[m] \in 1..(m - 1)
                     /\ \A l, m \in 1..n : l <= m => p[l] <= p[m]}
    /\ kind \in {k \in [1..n -> Kinds] :
                   \A m \in 1..n : k[m] \in ControlKinds => k[m] = ControlKindAt(m)}
    /\ has_disabled \in {h \in [1..n -> BOOLEAN] :
                           \A m \in 1..n : h[m] => IsField(m)}
    /\ disabled_state = [m \in 1..n |-> has_disabled[m]]
    /\ enabled_state = [m \in 1..n |->
                          kind[m] = "fieldset" \/ (IsField(m) /\ ~has_disabled[m])]
    /\ last = [el |-> 0, name |-> "none", mutation |-> "none"]
    /\ pre = [ds |-> disabled_state, es |-> enabled_state]
    /\ log = <<>>

Init == TreeInit(MaxNodesAnyAttr)

InitDisabled == TreeInit(MaxNodes)

\* The attribute storage changes the presence of the attribute, then the
\* handler runs to completion.
Deliver(c, name, mutation) ==
    \E s \in {attribute_mutated(
                  [ds |-> disabled_state, es |-> enabled_state, log |-> <<>>],
                  c, name, mutation)} :
        /\ disabled_state' = s.ds
        /\ enabled_state' = s.es
        /\ log' = s.log
        /\ last' = [el |-> c, name |-> name, mutation |-> mutation]
        /\ pre' = [ds |-> disabled_state, es |-> enabled_state]
        /\ UNCHANGED <<parent, kind>>

\* The disabled attribute of fieldset c is set or removed.
DisabledMutated(c) ==
    /\ kind[c] = "fieldset"
    /\ \E mutation \in MutationKinds :
          /\ (mutation = "SetNone") = ~has_disabled[c]
          /\ has_disabled' = [has_disabled EXCEPT ![c] = (mutation # "Removed")]
          /\ Deliver(c, "disabled", mutation)

\* The form attribute of fieldset c is set or removed.
FormMutated(c) ==
    /\ kind[c] = "fieldset"
    /\ \E mutation \in MutationKinds :
          /\ Deliver(c, "form", mutation)
          /\ UNCHANGED has_disabled

\* Another attribute of fieldset c is set or removed.
OtherMutated(c) ==
    /\ kind[c] = "fieldset"
    /\ \E name \in AttrNames \ {"disabled", "form"}, mutation \in MutationKinds :
          /\ Deliver(c, name, mutation)
          /\ UNCHANGED has_disabled

Next ==
    \/ \E c \in Nodes : DisabledMutated(c)
    \/ \E c \in Nodes : FormMutated(c)
    \/ \E c \in Nodes : OtherMutated(c)

\* Every attribute mutation a fieldset can receive.
Spec == Init /\ [][Next]_vars

NextDisabled == \E c \in Nodes : DisabledMutated(c)

\* The mutations of the disabled attribute alone, on the larger trees the
\* cases of the cascade need.
SpecDisabled == InitDisabled /\ [][NextDisabled]_vars

----------------------------------------------------------------------------
\* Vocabulary of the properties

IsControl(e) == kind[e] \in ControlKinds

IsFieldset(e) == kind[e] = "fieldset"

\* a is a proper ancestor of e.
RECURSIVE IsAncestor(_, _)
IsAncestor(a, e) ==
    /\ parent[e] # 0
    /\ (parent[e] = a \/ IsAncestor(a, parent[e]))

\* l is the first legend child of c.
IsFirstLegend(l, c) ==
    /\ parent[l] = c
    /\ kind[l] = "legend"
    /\ \A m \in Nodes : (parent[m] = c /\ kind[m] = "legend") => l <= m

\* l is a legend child of c, and not the first one.
IsLaterLegend(l, c) ==
    /\ parent[l] = c
    /\ kind[l] = "legend"
    /\ ~IsFirstLegend(l, c)

\* e lies in the subtree of the first legend child of c.
InFirstLegend(e, c) ==
    \E l \in Nodes : IsFirstLegend(l, c) /\ (e = l \/ IsAncestor(l, e))

\* e is a descendant of c that the caption rule of c does not exempt.
Covers(c, e) == IsAncestor(c, e) /\ ~InFirstLegend(e, c)

\* e is exempted by the caption rule of one of the fieldsets around it.
Exempted(e) == \E c \in Nodes : IsFieldset(c) /\ InFirstLegend(e, c)

\* Some fieldset around e is disabled.
AncestorDisabled(e) ==
    \E a \in Nodes : IsFieldset(a) /\ IsAncestor(a, e) /\ disabled_state[a]

\* The last delivery was mutation m of the disabled attribute of c.
DisabledDelivered(c, m) == last = [el |-> c, name |-> "disabled", mutation |-> m]

\* The handler made call op on element e during the last delivery.
Called(op, e) == \E i \in 1..Len(log) : log[i].op = op /\ log[i].el = e

----------------------------------------------------------------------------
\* C1: a control that no caption rule exempts is disabled exactly when its
\* own disabled attribute is present or a fieldset around it is disabled.
DisabledIffOwnOrAncestor ==
    \A e \in Nodes :
        (IsControl(e) /\ ~Exempted(e)) =>
            (disabled_state[e] <=> (has_disabled[e] \/ AncestorDisabled(e)))

\* The attribute of an outer fieldset was removed and a control without an
\* own attribute stays disabled because of an inner fieldset.
DisabledIffOwnOrAncestorWitness ==
    \E c, e \in Nodes :
        /\ DisabledDelivered(c, "Removed")
        /\ IsControl(e) /\ ~Exempted(e) /\ IsAncestor(c, e)
        /\ ~has_disabled[e] /\ disabled_state[e] /\ AncestorDisabled(e)

\* C2: between deliveries the two flags of every control and of every
\* fieldset are complementary.
FlagsComplementary ==
    \A e \in Nodes :
        (IsControl(e) \/ IsFieldset(e)) => (disabled_state[e] = ~enabled_state[e])

\* A cascade has disabled a control that has no disabled attribute itself.
FlagsComplementaryWitness ==
    \E c, e \in Nodes :
        /\ DisabledDelivered(c, "SetNone")
        /\ IsControl(e) /\ IsAncestor(c, e) /\ ~has_disabled[e]
        /\ disabled_state[e] /\ ~enabled_state[e] /\ ~pre.ds[e] /\ pre.es[e]

\* The handler made some call on element e during the last delivery.
Touched(e) == \E i \in 1..Len(log) : log[i].el = e

\* The last delivery ran a cascade of c (to disabled or to enabled).
Cascaded(c) == DisabledDelivered(c, "SetNone") \/ DisabledDelivered(c, "Removed")

\* The cascade of the last delivery acted on e: it forced e disabled, or it
\* derived the state of e anew.
ActedOn(e) ==
    IF last.mutation = "SetNone"
    THEN /\ Called("set_disabled_state", e) /\ Called("set_enabled_state", e)
         /\ disabled_state[e] /\ ~enabled_state[e]
    ELSE /\ Called("check_disabled_attribute", e)
         /\ Called("check_ancestors_disabled_state_for_form_control", e)

\* C3: a cascade of c leaves a control inside the first legend child of c
\* alone, acts on a control inside a later legend child of c, and, when c
\* has no legend child, acts on the controls below every child of c.
CaptionExemption ==
    \A c, e \in Nodes :
        (Cascaded(c) /\ IsControl(e)) =>
            /\ InFirstLegend(e, c) =>
                  /\ ~Touched(e)
                  /\ disabled_state[e] = pre.ds[e]
                  /\ enabled_state[e] = pre.es[e]
            /\ (\E l \in Nodes : IsLaterLegend(l, c) /\ IsAncestor(l, e)) => ActedOn(e)
            /\ ((\A l \in Nodes : parent[l] = c => kind[l] # "legend") /\ IsAncestor(c, e))
                  => ActedOn(e)

\* A fieldset with two legend children was disabled, and the control inside
\* the second legend, enabled before, is disabled now.
CaptionExemptionWitness ==
    \E c, k, l, e \in Nodes :
        /\ DisabledDelivered(c, "SetNone")
        /\ IsFirstLegend(k, c) /\ IsLaterLegend(l, c)
        /\ IsControl(e) /\ parent[e] = l
        /\ ~pre.ds[e] /\ disabled_state[e]

\* C4: when the attribute of an outer fieldset is removed while an inner
\* fieldset is disabled, every control the inner fieldset covers stays
\* disabled; and for every field the enabling branch checks the own
\* attribute first and the ancestors directly after it.
InnerFieldsetKeepsDisabled ==
    \A c \in Nodes :
        DisabledDelivered(c, "Removed") =>
            /\ \A i, e \in Nodes :
                  (/\ IsFieldset(i) /\ IsAncestor(c, i) /\ disabled_state[i]
                   /\ IsControl(e) /\ Covers(i, e))
                      => (disabled_state[e] /\ ~enabled_state[e])
            /\ \A n \in 1..Len(log) :
                  /\ log[n].op = "check_disabled_attribute" =>
                        /\ n < Len(log)
                        /\ log[n + 1].op = "check_ancestors_disabled_state_for_form_control"
                        /\ log[n + 1].el = log[n].el
                  /\ log[n].op = "check_ancestors_disabled_state_for_form_control" =>
                        /\ n > 1
                        /\ log[n - 1].op = "check_disabled_attribute"
                        /\ log[n - 1].el = log[n].el

\* The outer attribute was removed, the inner fieldset is disabled, and a
\* control of the inner fieldset without an own attribute went through both
\* checks and is disabled.
InnerFieldsetKeepsDisabledWitness ==
    \E c, i, e \in Nodes :
        /\ DisabledDelivered(c, "Removed")
        /\ IsFieldset(i) /\ IsAncestor(c, i) /\ disabled_state[i]
        /\ IsControl(e) /\ Covers(i, e) /\ Covers(c, e) /\ ~has_disabled[e]
        /\ Called("check_disabled_attribute", e)
        /\ disabled_state[e]

\* C5: after the attribute of c is removed, a control that c covers is
\* disabled if its own attribute is present, and enabled if it has no own
\* attribute and no fieldset around it is disabled.
RederivedOnEnable ==
    \A c, e \in Nodes :
        (DisabledDelivered(c, "Removed") /\ IsControl(e) /\ Covers(c, e)) =>
            /\ has_disabled[e] => (disabled_state[e] /\ ~enabled_state[e])
            /\ (~has_disabled[e] /\ ~AncestorDisabled(e))
                  => (~disabled_state[e] /\ enabled_state[e])

\* After the removal one control of c keeps its own disabled state and
\* another one, disabled by c before, is enabled.
RederivedOnEnableWitness ==
    \E c, d, e \in Nodes :
        /\ DisabledDelivered(c, "Removed")
        /\ IsControl(d) /\ Covers(c, d) /\ has_disabled[d] /\ disabled_state[d]
        /\ IsControl(e) /\ Covers(c, e) /\ ~has_disabled[e]
        /\ pre.ds[e] /\ ~disabled_state[e] /\ enabled_state[e]

\* C6: when the attribute of c goes from absent to present, every control
\* that c covers is forced disabled, whatever its own attribute says and
\* whatever lies between c and the control.
ForcedOnDisable ==
    \A c, e \in Nodes :
        (DisabledDelivered(c, "SetNone") /\ IsControl(e) /\ Covers(c, e)) =>
            /\ disabled_state[e] /\ ~enabled_state[e]
            /\ Called("set_disabled_state", e) /\ Called("set_enabled_state", e)

\* A control without an own attribute, enabled before, was disabled through
\* a nested fieldset between it and the disabled fieldset.
ForcedOnDisableWitness ==
    \E c, i, e \in Nodes :
        /\ DisabledDelivered(c, "SetNone")
        /\ IsFieldset(i) /\ parent[i] = c /\ parent[e] = i
        /\ IsControl(e) /\ Covers(c, e) /\ ~has_disabled[e]
        /\ ~pre.ds[e] /\ pre.es[e] /\ disabled_state[e] /\ ~enabled_state[e]

\* C7: a Set(Some(_)) mutation of the disabled attribute runs no cascade:
\* the handler calls nothing but the super type and both flags of every
\* element are what they were before.
SetSomeChangesNothing ==
    \A c \in Nodes :
        DisabledDelivered(c, "SetSome") =>
            /\ disabled_state = pre.ds
            /\ enabled_state = pre.es
            /\ \A n \in 1..Len(log) : log[n].op = "super_attribute_mutated"

\* The attribute of a disabled fieldset with a control below it was set
\* again.
SetSomeChangesNothingWitness ==
    \E c, e \in Nodes :
        /\ DisabledDelivered(c, "SetSome")
        /\ disabled_state[c] /\ has_disabled[c]
        /\ IsControl(e) /\ Covers(c, e) /\ disabled_state[e] /\ ~has_disabled[e]

\* C8 as stated: the Elements query of a fieldset lists exactly the fields
\* of its cascade, the first legend child exempted in both.
ElementsAreCascadeFields ==
    \A c \in Nodes : IsFieldset(c) => Elements(c) = fields(c)

\* C8 as amended: the Elements query lists every descendant of the fieldset
\* that passes the listed-element filter, with no caption exemption; so it
\* holds every field of the cascade, and also the listed elements inside
\* the first legend child, which the cascade leaves out.
ElementsIgnoreCaptionRule ==
    \A c \in Nodes :
        IsFieldset(c) =>
            \E listed \in {Range(Elements(c))}, cascaded \in {Range(fields(c))} :
                /\ listed = {e \in Nodes : IsAncestor(c, e) /\ is_listed_element(e)}
                /\ cascaded \subseteq listed
                /\ \A e \in Nodes :
                      (is_listed_element(e) /\ InFirstLegend(e, c)) =>
                          (e \in listed /\ e \notin cascaded)

\* A fieldset with a control inside its first legend child and a control
\* outside it: the query lists both, the cascade the second only.
ElementsIgnoreCaptionRuleWitness ==
    \E c, d, e \in Nodes :
        /\ IsFieldset(c)
        /\ IsControl(e) /\ InFirstLegend(e, c)
        /\ IsControl(d) /\ Covers(c, d)
        /\ {d, e} \subseteq Range(Elements(c))
        /\ d \in Range(fields(c)) /\ e \notin Range(fields(c))

\* C9: the disabled state of a fieldset is the presence of its disabled
\* attribute and its enabled state the negation, a new fieldset being
\* enabled; and a delivery to another element changes neither flag.
OwnStateFollowsAttribute ==
    \A c \in Nodes :
        IsFieldset(c) =>
            /\ disabled_state[c] = has_disabled[c]
            /\ enabled_state[c] = ~has_disabled[c]
            /\ last.el = 0 => (enabled_state[c] /\ ~disabled_state[c])
            /\ (last.el # c \/ last.name # "disabled") =>
                  /\ disabled_state[c] = pre.ds[c]
                  /\ enabled_state[c] = pre.es[c]

\* An outer fieldset was disabled; the fieldset nested in it, a cascade
\* root's subtree, is still enabled.
OwnStateFollowsAttributeWitness ==
    \E c, i \in Nodes :
        /\ DisabledDelivered(c, "SetNone")
        /\ disabled_state[c] /\ ~enabled_state[c]
        /\ IsFieldset(i) /\ Covers(c, i)
        /\ ~has_disabled[i] /\ ~disabled_state[i] /\ enabled_state[i]

\* C10: for every delivery the first call of the handler is that of the
\* super type, and it is the only such call.
SuperCalledFirstOnce ==
    last.el # 0 =>
        /\ Len(log) >= 1
        /\ log[1] = Call("super_attribute_mutated", last.el, FALSE)
        /\ \A n \in 2..Len(log) : log[n].op # "super_attribute_mutated"

\* The form attribute was mutated: the resolver was called after the super
\* type.
SuperCalledFirstOnceWitness ==
    /\ last.name = "form"
    /\ Len(log) = 2
    /\ log[1].op = "super_attribute_mutated"
    /\ log[2].op = "form_attribute_mutated"

\* C11: a mutation of the form attribute calls the form owner resolver and
\* runs no cascade, a mutation of any other attribute calls neither; both
\* leave the two flags of every element as they were, and the resolver is
\* called for the form attribute only.
FormAndOtherAttributes ==
    /\ last.name = "form" =>
          /\ log = <<Call("super_attribute_mutated", last.el, FALSE),
                     Call("form_attribute_mutated", last.el, FALSE)>>
          /\ disabled_state = pre.ds
          /\ enabled_state = pre.es
    /\ (last.el # 0 /\ last.name \notin {"disabled", "form"}) =>
          /\ log = <<Call("super_attribute_mutated", last.el, FALSE)>>
          /\ disabled_state = pre.ds
          /\ enabled_state = pre.es
    /\ last.name # "form" =>
          \A n \in 1..Len(log) : log[n].op # "form_attribute_mutated"

\* Another attribute of a disabled fieldset with a control below it was
\* removed: a cascade would have enabled both.
FormAndOtherAttributesWitness ==
    \E e \in Nodes :
        /\ last.name = "name" /\ last.mutation = "Removed"
        /\ IsFieldset(last.el) /\ disabled_state[last.el]
        /\ IsControl(e) /\ Covers(last.el, e) /\ ~has_disabled[e] /\ disabled_state[e]

\* C12: a cascade writes the two flags of its fieldset before it makes any
\* call on a field; so in an enabling cascade the ancestor check of a field
\* is forced by the other disabled fieldsets around it only.
OwnStateWrittenFirst ==
    \A c \in Nodes :
        Cascaded(c) =>
            /\ Len(log) >= 3
            /\ log[2] = Call("set_disabled_state", c, last.mutation = "SetNone")
            /\ log[3] = Call("set_enabled_state", c, last.mutation # "SetNone")
            /\ \A n \in 4..Len(log) : log[n].el # c
            /\ \A n \in 1..Len(log) :
                  log[n].op = "check_ancestors_disabled_state_for_form_control" =>
                      log[n].val = (\E a \in Nodes : /\ a # c
                                                    /\ IsFieldset(a)
                                                    /\ IsAncestor(a, log[n].el)
                                                    /\ disabled_state[a])

\* The attribute of a disabled fieldset was removed and the ancestor check
\* of a control below it, made after the own flags were written, forced
\* nothing: the control is enabled.
OwnStateWrittenFirstWitness ==
    \E c, e \in Nodes :
        /\ DisabledDelivered(c, "Removed")
        /\ pre.ds[c] /\ ~disabled_state[c]
        /\ IsControl(e) /\ Covers(c, e) /\ pre.ds[e] /\ ~disabled_state[e]
        /\ \E n \in 4..Len(log) :
              log[n] = Call("check_ancestors_disabled_state_for_form_control", e, FALSE)

\* The two flags of e are what they were before the last delivery, and the
\* handler made no call on e.
LeftAlone(e) ==
    /\ ~Touched(e)
    /\ disabled_state[e] = pre.ds[e]
    /\ enabled_state[e] = pre.es[e]

\* C13, the flags: a cascade of c leaves alone every element but c and the
\* controls that c covers (so everything outside the subtree of c, the
\* subtree of the first legend child of c, and every element that is not a
\* control).
CascadeFrameFlags ==
    \A c, e \in Nodes :
        (Cascaded(c) /\ e # c /\ ~(IsControl(e) /\ Covers(c, e))) => LeftAlone(e)

\* C13, the tree: a delivery changes neither the tree nor the kinds, and no
\* disabled attribute but the one whose mutation is delivered.
CascadeFrameTree ==
    /\ parent' = parent
    /\ kind' = kind
    /\ \A e \in Nodes : has_disabled'[e] # has_disabled[e] =>
          (e = last'.el /\ last'.name = "disabled")

\* C13: a cascade of c changes the flags of c and of the controls it covers
\* only, and leaves the tree and the own attributes of all elements alone.
CascadeFrame == [](CascadeFrameFlags) /\ [][CascadeFrameTree]_vars

\* A nested fieldset was disabled: a control below it is disabled now, a
\* control beside it, enabled before, is enabled still.
CascadeFrameWitness ==
    \E c, e, x \in Nodes :
        /\ DisabledDelivered(c, "SetNone") /\ parent[c] # 0
        /\ IsControl(e) /\ Covers(c, e) /\ ~pre.ds[e] /\ disabled_state[e]
        /\ IsControl(x) /\ ~IsAncestor(c, x) /\ ~has_disabled[x]
        /\ ~disabled_state[x] /\ enabled_state[x]

\* The flags of the current state, as the state a handler starts in.
Current == [ds |-> disabled_state, es |-> enabled_state, log |-> <<>>]

\* C14: disabling cascades of one fieldset, applied twice in a row, leave
\* the flags of every element as the first one left them, and the second
\* makes the calls of the first.
DisableTwiceIsDisableOnce ==
    \A c \in Nodes :
        IsFieldset(c) =>
            \E once \in {Propagate(Current, c, TRUE)} :
                \E twice \in {Propagate([once EXCEPT !.log = <<>>], c, TRUE)} :
                    /\ twice.ds = once.ds
                    /\ twice.es = once.es
                    /\ twice.log = once.log

\* A fieldset was disabled, which disabled a control below it; a second
\* disabling cascade of the fieldset changes no flag.
DisableTwiceIsDisableOnceWitness ==
    \E c, e \in Nodes :
        /\ DisabledDelivered(c, "SetNone")
        /\ IsControl(e) /\ Covers(c, e) /\ ~pre.ds[e] /\ disabled_state[e]
        /\ Propagate(Current, c, TRUE).ds = disabled_state
        /\ Propagate(Current, c, TRUE).es = enabled_state

\* The child of a on the way down to x.
BranchTo(x, a) == CHOOSE z \in Nodes : parent[z] = a /\ (z = x \/ IsAncestor(z, x))

\* The lowest element above both x and y (the elements are numbered breadth
\* first, so it is the one of the greatest number).
LowestAbove(x, y) ==
    CHOOSE a \in Nodes :
        /\ IsAncestor(a, x) /\ IsAncestor(a, y)
        /\ \A b \in Nodes : (IsAncestor(b, x) /\ IsAncestor(b, y)) => b <= a

\* x comes before y in pre-order: x is above y, or x lies in the subtree of
\* an earlier child of the lowest element above both.
PreorderBefore(x, y) ==
    \/ IsAncestor(x, y)
    \/ /\ x # y
       /\ ~IsAncestor(y, x)
       /\ BranchTo(x, LowestAbove(x, y)) < BranchTo(y, LowestAbove(x, y))

\* The places in the log of the call that acts on a field in the cascade of
\* the last delivery.
ActedAt(e) ==
    {n \in 1..Len(log) :
        /\ log[n].el = e
        /\ log[n].op = (IF last.mutation = "SetNone" THEN "set_disabled_state"
                                                     ELSE "check_disabled_attribute")}

\* C15: the traversal of a cascade of c visits every element below the
\* cascade roots of c, roots included, once and in pre-order, and the
\* cascade, which is over when its delivery is, has acted on every control
\* among them once, in that order, and on nothing else below c.
VisitedOnceInPreorder ==
    \A c \in Nodes :
        Cascaded(c) =>
            \E visited \in {TraverseAll(children(c))} :
                /\ Range(visited) = {e \in Nodes : Covers(c, e)}
                /\ \A i, j \in 1..Len(visited) :
                      i < j => (visited[i] # visited[j]
                                /\ PreorderBefore(visited[i], visited[j]))
                /\ \A e \in Nodes :
                      IF IsControl(e) /\ Covers(c, e)
                      THEN Cardinality(ActedAt(e)) = 1
                      ELSE e # c => ActedAt(e) = {}
                /\ \A e, f \in Nodes :
                      (/\ IsControl(e) /\ Covers(c, e)
                       /\ IsControl(f) /\ Covers(c, f)
                       /\ PreorderBefore(e, f))
                          => \A m \in ActedAt(e), n \in ActedAt(f) : m < n

\* A cascade acted on a control of a greater number before a control of a
\* smaller one: the first is below an earlier child of the fieldset.
VisitedOnceInPreorderWitness ==
    \E c, e, f \in Nodes :
        /\ Cascaded(c)
        /\ IsControl(e) /\ IsControl(f) /\ e > f
        /\ parent[f] = c /\ parent[e] # c /\ PreorderBefore(e, f)
        /\ \E m \in ActedAt(e), n \in ActedAt(f) : m < n

\* e lies below a legend that is below c and is no child of c.
BelowDeeperLegend(e, c) ==
    \E l \in Nodes :
        /\ kind[l] = "legend"
        /\ IsAncestor(l, e) /\ IsAncestor(c, l) /\ parent[l] # c

\* C16: only a legend child of the fieldset whose attribute changed exempts
\* anything: the cascade acts on a control below a legend at greater depth
\* (the first legend of a nested fieldset, a legend inside another
\* element), unless the first legend child of the fieldset itself is above
\* the control.
DeeperLegendExemptsNothing ==
    \A c, e \in Nodes :
        (/\ Cascaded(c)
         /\ IsControl(e) /\ BelowDeeperLegend(e, c)
         /\ ~InFirstLegend(e, c))
            => (ActedOn(e) /\ Cardinality(ActedAt(e)) = 1)

\* An outer fieldset was disabled, and with it the control inside the first
\* legend of the fieldset nested in it.
DeeperLegendExemptsNothingWitness ==
    \E c, i, l, e \in Nodes :
        /\ DisabledDelivered(c, "SetNone")
        /\ IsFieldset(i) /\ parent[i] = c
        /\ IsFirstLegend(l, i) /\ parent[e] = l /\ IsControl(e)
        /\ ~has_disabled[e] /\ ~pre.ds[e] /\ disabled_state[e] /\ ~enabled_state[e]

\* The flags after the disabled attribute of c is set and then removed,
\* with nothing in between.
SetThenRemoved(c) ==
    attribute_mutated(
        [attribute_mutated(Current, c, "disabled", "SetNone") EXCEPT !.log = <<>>],
        c, "disabled", "Removed")

====
